---- MODULE Spec2Model ----
(***************************************************************************)
(* Model of wiserHeatingAPI/wiserHub.py: the wiserHub facade over the      *)
(* Wiser heat hub's HTTP/JSON API.                                         *)
(*                                                                         *)
(* The facade object's fields are the state.  Every public method is one   *)
(* action; the method body is an operator from the object's state and the  *)
(* hub's answers to the object's new state, the exception raised (if any)  *)
(* and the HTTP exchanges made.  The hub is the environment: each action   *)
(* draws the answers the hub gives to the requests of that call.           *)
(*                                                                         *)
(* Encodings.                                                              *)
(*   Python None / a present value : None / Some(v).                       *)
(*   Python str                    : a sequence of one-character strings,  *)
(*                                   so that lower() and title() are       *)
(*                                   computed, not assumed.                *)
(*   Celsius temperatures          : integers in hundredths of a degree    *)
(*                                   (Scale), so 20.55 C is 2055.          *)
(*   Hub temperatures              : integers in tenths of a degree, as    *)
(*                                   on the wire.                          *)
(***************************************************************************)
EXTENDS Integers, Sequences, FiniteSets, TLC

VARIABLES
    wiserHubData,       \* self.wiserHubData: None or Some(hub document)
    wiserNetworkData,   \* self.wiserNetworkData, set in __init__
    WiserNetworkData,   \* self.WiserNetworkData, assigned by refreshData
    device2roomMap,     \* self.device2roomMap: device id -> room info
    phase,              \* "new" before __init__ has returned, then "ready"
    call,               \* the last call: operation, arguments, outcome, exchanges
    threads,            \* where each thread that uses the object is in its call
    serialised          \* the callers let one call end before the next starts

vars == <<wiserHubData, wiserNetworkData, WiserNetworkData, device2roomMap,
          phase, call, threads, serialised>>

-----------------------------------------------------------------------------
(* Bounds of the model *)

MaxDevice == 2      \* device ids are 1..MaxDevice

Devs == 1..MaxDevice
RoomIds == {1, 2}   \* the rooms a hub document can list
UnknownRoom == Cardinality(RoomIds) + 1     \* a room id no document lists

(* Program constants *)

TEMP_MINIMUM == 5
TEMP_MAXIMUM == 30
TEMP_OFF == -20
TIMEOUT == 5
DHWOnTemp == 1100
DHWOffTemp == -200

(* The URL templates, by path and resource id *)
WISERHUBURL == <<"/data/domain/">>
WISERNETWORKURL == <<"/data/network/">>
WISERMODEURL == <<"/data/domain/System/RequestOverride">>
WISERSETROOMTEMP(roomId) == <<"//data/domain/Room/", roomId>>
WISERROOM(roomId) == <<"//data/domain/Room/", roomId>>
WISERSCHEDULEURL(scheduleId) == <<"/data/domain/Schedule/", scheduleId>>
WISERSMARTPLUGURL(smartPlugId) == <<"/data/domain/SmartPlug/", smartPlugId>>

(* Fixed-point grid of Celsius values: hundredths of a degree *)
Scale == 10 * 10
C(deg) == deg * Scale

-----------------------------------------------------------------------------
(* Python None and present values *)

None == [some |-> FALSE]
Some(v) == [some |-> TRUE, val |-> v]

(* Python strings as character sequences *)

Lowers == <<"a","b","c","d","e","f","g","h","i","j","k","l","m",
            "n","o","p","q","r","s","t","u","v","w","x","y","z">>
Uppers == <<"A","B","C","D","E","F","G","H","I","J","K","L","M",
            "N","O","P","Q","R","S","T","U","V","W","X","Y","Z">>

IsUpper(c) == \E i \in 1..26 : Uppers[i] = c
IsLower(c) == \E i \in 1..26 : Lowers[i] = c
IsCased(c) == IsUpper(c) \/ IsLower(c)

lowerChar(c) == IF IsUpper(c) THEN Lowers[CHOOSE i \in 1..26 : Uppers[i] = c] ELSE c
upperChar(c) == IF IsLower(c) THEN Uppers[CHOOSE i \in 1..26 : Lowers[i] = c] ELSE c

\* str.lower()
lower(s) == [i \in 1..Len(s) |-> lowerChar(s[i])]

\* str.title(): a cased character is upper-cased after an uncased one
\* (or at the start) and lower-cased after a cased one
title(s) ==
    [i \in 1..Len(s) |->
        IF i = 1 \/ ~IsCased(s[i-1]) THEN upperChar(s[i]) ELSE lowerChar(s[i])]

S_auto == <<"a","u","t","o">>
S_boost == <<"b","o","o","s","t">>
S_manual == <<"m","a","n","u","a","l">>
S_off == <<"o","f","f">>
S_on == <<"o","n">>
S_HOME == <<"H","O","M","E">>
S_AWAY == <<"A","W","A","Y">>
S_On == <<"O","n">>
S_Off == <<"O","f","f">>
S_Auto == <<"A","u","t","o">>
S_Manual == <<"M","a","n","u","a","l">>

-----------------------------------------------------------------------------
(* Temperature conversions *)

\* Python int(): truncation toward zero of n/d, d > 0
Trunc(n, d) == IF n >= 0 THEN n \div d ELSE -((-n) \div d)

\* __toWiserTemp: int(temp * 10); temp is in hundredths, so temp*10 is temp/10 tenths
toWiserTemp(temp) == Trunc(temp * 10, Scale)

\* __fromWiserTemp: round(temp / 10, 1); an integer number of tenths
\* is already on the one-decimal grid
\* a decoding that divided in whole numbers
fromWiserTempWhole(temp) == (temp \div 10) * Scale

fromWiserTemp(temp) == (temp * Scale) \div 10

\* a range check that knew no off value
checkTempRangeNoOff(temp) ==
    IF temp < C(TEMP_MINIMUM) \/ temp > C(TEMP_MAXIMUM) THEN FALSE ELSE TRUE

\* __checkTempRange
checkTempRange(temp) ==
    IF temp # C(TEMP_OFF) /\ (temp < C(TEMP_MINIMUM) \/ temp > C(TEMP_MAXIMUM))
    THEN FALSE
    ELSE TRUE

-----------------------------------------------------------------------------
(* Hub documents: what resp.json() can yield for the /data/domain/ GET.    *)
(* A section the document lacks is None, as dict.get() reports it.  A      *)
(* device belongs to at most one room, as on a real hub.                   *)

RoomNames == <<"Lounge", "Kitchen", "Hall", "Study">>

RECURSIVE SortedSeq(_)
SortedSeq(S) ==
    IF S = {} THEN <<>>
    ELSE LET m == CHOOSE x \in S : \A y \in S : x <= y
         IN <<m>> \o SortedSeq(S \ {m})

MkRoom(r, stat, valves, sched, sp) ==
    [id |-> r, Name |-> RoomNames[r], RoomStatId |-> stat,
     SmartValveIds |-> valves, ScheduleId |-> sched, ScheduledSetPoint |-> sp]

MkSchedule(k) == [id |-> k, Type |-> "Heating", Monday |-> 100 + k]

MkDoc(rooms, hotwater, schedules) ==
    [Room |-> rooms, HotWater |-> hotwater, Schedule |-> schedules]

HotWaterOne == Some(<<[id |-> 7, WaterHeatingState |-> "Off"]>>)

\* where a device sits: in no room, or in room r as its thermostat or as a
\* valve; device 1 is the only one that can be a thermostat
NoPlace == [room |-> 0, kind |-> "none"]
Places(n, d) ==
    {NoPlace} \cup [room : 1..n, kind : IF d = 1 THEN {"stat", "valve"} ELSE {"valve"}]

Placements(n) == {pl \in [Devs -> Places(n, 1)] : \A d \in Devs : pl[d] \in Places(n, d)}

PlacedRoom(pl, r) ==
    LET stats == {d \in Devs : pl[d] = [room |-> r, kind |-> "stat"]}
        valves == {d \in Devs : pl[d] = [room |-> r, kind |-> "valve"]}
    IN MkRoom(r,
              IF stats = {} THEN None ELSE Some(CHOOSE d \in stats : TRUE),
              IF valves # {} THEN Some(SortedSeq(valves))
              ELSE IF stats # {} THEN Some(<<>>) ELSE None,
              Some(r), 200)

PlacedDoc(n, pl) ==
    MkDoc(Some([r \in 1..n |-> PlacedRoom(pl, r)]), HotWaterOne,
          Some([r \in 1..n |-> MkSchedule(r)]))

\* documents that differ in which devices sit in which rooms
SnapshotDocs ==
    {MkDoc(None, HotWaterOne, None)}
    \cup UNION {{PlacedDoc(n, pl) : pl \in Placements(n)} : n \in 0..Cardinality(RoomIds)}

\* a few of them: no sections, no rooms, and two layouts of two rooms
ReadDocs ==
    {MkDoc(None, None, None),
     PlacedDoc(0, [d \in Devs |-> NoPlace]),
     PlacedDoc(2, [d \in Devs |-> [room |-> 1, kind |-> IF d = 1 THEN "stat" ELSE "valve"]]),
     PlacedDoc(2, [d \in Devs |-> [room |-> 2, kind |-> "valve"]])}

\* documents with the sections the by-id lookups and the relay status read
MkChannel(k, relay) == [id |-> k, HeatingRelayState |-> relay]

MkDevice(d) == [id |-> d, ProductType |-> "iTRV"]

MkSmartPlug(p) == [id |-> p, OutputState |-> "Off"]

MkLookupDoc(rooms, channels, devices, plugs) ==
    [Room |-> rooms, HotWater |-> HotWaterOne, Schedule |-> None,
     HeatingChannel |-> channels, Device |-> devices, SmartPlug |-> plugs]

\* the records 1..n of a section
Records(Mk(_), n) == Some([i \in 1..n |-> Mk(i)])

BareRoom(r) == MkRoom(r, None, None, None, 200)

\* every section absent, empty, of one record, of two; the heating channels
\* all off, or one of them on
LookupDocs ==
    {MkLookupDoc(None, None, None, None),
     MkLookupDoc(Some(<<>>), Some(<<>>), Some(<<>>), Some(<<>>)),
     MkLookupDoc(Records(BareRoom, 1), Some(<<MkChannel(1, "Off")>>),
                 Records(MkDevice, 1), Records(MkSmartPlug, 1)),
     MkLookupDoc(Records(BareRoom, 2), Some(<<MkChannel(1, "Off"), MkChannel(2, "On")>>),
                 Records(MkDevice, 2), Records(MkSmartPlug, 2)),
     MkLookupDoc(Records(BareRoom, 2), Some(<<MkChannel(1, "On"), MkChannel(2, "Off")>>),
                 Records(MkDevice, 2), None),
     MkLookupDoc(None, Some(<<MkChannel(1, "Off"), MkChannel(2, "Off")>>),
                 Some(<<>>), Records(MkSmartPlug, 2))}

\* documents that differ in what the setters look up: the scheduled set-point
\* of room 1, the schedule of room 2, the Schedule and HotWater sections
CmdRooms(sp, sched2) ==
    Some(<<MkRoom(1, Some(1), Some(<<2>>), Some(1), sp),
           MkRoom(2, None, None, sched2, 180)>>)

CmdDocs ==
    {MkDoc(CmdRooms(205, Some(2)), HotWaterOne, Some(<<MkSchedule(1), MkSchedule(2)>>)),
     MkDoc(CmdRooms(30, None), Some(<<>>), Some(<<MkSchedule(1)>>)),
     MkDoc(CmdRooms(DHWOffTemp, Some(2)), None, Some(<<MkSchedule(1)>>)),
     MkDoc(CmdRooms(50, Some(2)), HotWaterOne, None),
     MkDoc(CmdRooms(49, Some(2)), HotWaterOne, Some(<<MkSchedule(2)>>)),
     MkDoc(None, HotWaterOne, None)}

-----------------------------------------------------------------------------
(* The hub's answers.  kind "timeout" and "connerr" are requests.Timeout   *)
(* and requests.ConnectionError raised by the transport; kind "resp" is a  *)
(* response with an HTTP status.                                           *)

NoAnswerKinds == {"timeout", "connerr"}
ErrorStatuses == {401, 404, 500}

\* answers to GET /data/domain/: body is the parsed JSON, None if it does not parse
HubResponses(D) ==
    {[kind |-> k, status |-> 0, body |-> None] : k \in NoAnswerKinds}
    \cup {[kind |-> "resp", status |-> c, body |-> None] : c \in ErrorStatuses}
    \cup {[kind |-> "resp", status |-> 200, body |-> None]}
    \cup {[kind |-> "resp", status |-> 200, body |-> Some(d)] : d \in D}

\* network documents, and the bytes of a /data/network/ response as chunks:
\* "J1", "J2" are the JSON text of a network document, "NP" a run of
\* non-printable bytes, "X" printable text that is not JSON
NetDoc(k) ==
    [Station |-> [MdnsHostname |-> IF k = 1 THEN "WiserHeat01" ELSE "WiserHeat02",
                  MacAddress |-> IF k = 1 THEN "AA:01" ELSE "AA:02"]]
NetContents == {<<"J1">>, <<"NP", "J2">>, <<"X">>}

NetResponses ==
    {[kind |-> k, status |-> 0, content |-> <<>>] : k \in NoAnswerKinds}
    \cup {[kind |-> "resp", status |-> 200, content |-> c] : c \in NetContents}

PatchResponses ==
    {[kind |-> "connerr", status |-> 0]}
    \cup {[kind |-> "resp", status |-> c] : c \in {200, 404}}

\* re.sub(rb'[^\x20-\x7F]+', b'', responseContent)
stripNonPrintable(content) == SelectSeq(content, LAMBDA ch : ch # "NP")

\* json.loads of the network bytes: None when they are not JSON
jsonLoads(content) ==
    IF content = <<"J1">> THEN Some(NetDoc(1))
    ELSE IF content = <<"J2">> THEN Some(NetDoc(2))
    ELSE None

\* resp.raise_for_status(): HTTPError for 4xx and 5xx
raisesHTTPError(status) == status >= 400 /\ status < 600

-----------------------------------------------------------------------------
(* The running call.  A method body is an operator on a record holding the *)
(* object's fields, the exchanges made so far (reqs) and the answers the   *)
(* hub has yet to give (hubResp, netResp, patchResp).  Its result is the   *)
(* record after the call with exc, the exception raised ("" for a normal   *)
(* return), and ret, the value returned.                                   *)

Return(st, v) == [st |-> st, exc |-> "", ret |-> v]
Raise(st, e) == [st |-> st, exc |-> e, ret |-> None]

headers == "SECRET,Content-Type"

Exchange(method, url, body, timeout, resp) ==
    [method |-> method, url |-> url, json |-> body, timeout |-> timeout,
     headers |-> headers, resp |-> resp]

\* the hub's next answer; a hub that has no answer left is unreachable
nextAnswer(answers, unreachable) ==
    IF answers = <<>> THEN unreachable ELSE Head(answers)

rest(answers) == IF answers = <<>> THEN <<>> ELSE Tail(answers)

\* requests.get(WISERHUBURL..., headers=self.headers, timeout=TIMEOUT)
getHub(st) ==
    LET resp == nextAnswer(st.hubResp, [kind |-> "connerr", status |-> 0, body |-> None])
    IN [st |-> [st EXCEPT !.hubResp = rest(@),
                          !.reqs = Append(@, Exchange("GET", WISERHUBURL, None,
                                                      Some(TIMEOUT), resp))],
        resp |-> resp]

\* requests.get(WISERNETWORKURL..., headers=self.headers, timeout=TIMEOUT)
getNetwork(st) ==
    LET resp == nextAnswer(st.netResp, [kind |-> "connerr", status |-> 0, content |-> <<>>])
    IN [st |-> [st EXCEPT !.netResp = rest(@),
                          !.reqs = Append(@, Exchange("GET", WISERNETWORKURL, None,
                                                      Some(TIMEOUT), resp))],
        resp |-> resp]

\* requests.patch(url, headers=self.headers, json=body[, timeout=TIMEOUT])
patch(st, url, body, timeout) ==
    LET resp == nextAnswer(st.patchResp, [kind |-> "connerr", status |-> 0])
    IN [st |-> [st EXCEPT !.patchResp = rest(@),
                          !.reqs = Append(@, Exchange("PATCH", url, Some(body),
                                                      timeout, resp))],
        resp |-> resp]

\* the exception a transport failure of a PATCH propagates to the caller
TransportError(resp) ==
    IF resp.kind = "timeout" THEN "requests.Timeout" ELSE "requests.ConnectionError"

-----------------------------------------------------------------------------
(* refreshData, checkHubData, getRooms *)

\* d[k] = v on a dict
DictSet(d, k, v) == [x \in (DOMAIN d) \cup {k} |-> IF x = k THEN v ELSE d[x]]

RoomInfo(room) == [roomId |-> room.id, roomName |-> room.Name]

\* for valveId in smartValves: self.device2roomMap[valveId] = {...}
RECURSIVE addValves(_, _, _)
addValves(map, valves, room) ==
    IF valves = <<>> THEN map
    ELSE addValves(DictSet(map, Head(valves), RoomInfo(room)), Tail(valves), room)

\* addRoom without its loop over the room's valves
addRoomStatOnly(map, room) ==
    IF room.RoomStatId # None
    THEN DictSet(map, room.RoomStatId.val, RoomInfo(room))
    ELSE map

\* the body of "for room in self.getRooms()" for one room
addRoom(map, room) ==
    LET roomStatId == room.RoomStatId
        m1 == IF roomStatId # None
              THEN DictSet(map, roomStatId.val, RoomInfo(room))
              ELSE map
        smartValves == room.SmartValveIds
    IN IF smartValves # None THEN addValves(m1, smartValves.val, room) ELSE m1

\* for room in self.getRooms(): ...
RECURSIVE addRooms(_, _)
addRooms(map, rooms) ==
    IF rooms = <<>> THEN map
    ELSE addRooms(addRoom(map, Head(rooms)), Tail(rooms))

\* a refreshData that left the thermostat of a room out of the index
addRoomStatNever(map, room) == map

\* roomStatId = room.get("RoomStatId"); if roomStatId is not None:
\* self.device2roomMap[roomStatId] = {...}
addRoomStat(map, room) ==
    IF room.RoomStatId # None
    THEN DictSet(map, room.RoomStatId.val, RoomInfo(room))
    ELSE map

\* smartValves = room.get("SmartValveIds"), an absent list having no valve
\* to loop over
valvesOf(room) == IF room.SmartValveIds # None THEN room.SmartValveIds.val ELSE <<>>

\* attribute lookup self.wiserHubData.status_code: wiserHubData is None or
\* the dict resp.json() gave, and neither has the attribute
hasStatusCode(hubData) == FALSE

\* the "except requests.HTTPError" handler of refreshData
onHTTPError(st, status) ==
    IF ~hasStatusCode(st.wiserHubData) THEN Raise(st, "AttributeError")
    ELSE IF status = 401 THEN Raise(st, "WiserHubAuthenticationException")
    ELSE IF status = 404 THEN Raise(st, "WiserRESTException:Not Found.")
    ELSE Raise(st, "WiserRESTException:Unknown Error.")

\* self.getRooms() as refreshData calls it: wiserHubData has just been
\* assigned the parsed document, so its checkHubData() passes without a
\* refresh and the call yields wiserHubData.get("Room")
roomsOf(st) == st.wiserHubData.val.Room

\* self.wiserHubData = resp.json()
storeHubData(g) == [g.st EXCEPT !.wiserHubData = g.resp.body]

\* if self.getRooms() is not None: for room in self.getRooms(): ...
indexRooms(st) ==
    IF roomsOf(st) # None
    THEN [st EXCEPT !.device2roomMap = addRooms(@, roomsOf(st).val)]
    ELSE st

\* self.WiserNetworkData = json.loads(responseContent); return self.wiserHubData
storeNetworkData(st, parsed) ==
    IF parsed = None THEN Raise(st, "JSONDecodeError")
    ELSE Return([st EXCEPT !.WiserNetworkData = parsed], st.wiserHubData)

\* a refreshData that took a timeout of the network GET for a lost connection
afterNetworkGetLenient(n) ==
    IF n.resp.kind \in {"timeout", "connerr"} THEN Return(n.st, n.st.wiserHubData)
    ELSE storeNetworkData(n.st, jsonLoads(stripNonPrintable(n.resp.content)))

\* refreshData from the answer n to the network GET on
afterNetworkGet(n) ==
    IF n.resp.kind = "timeout" THEN Raise(n.st, "WiserHubTimeoutException")
    ELSE IF n.resp.kind = "connerr" THEN Return(n.st, n.st.wiserHubData)
    ELSE storeNetworkData(n.st, jsonLoads(stripNonPrintable(n.resp.content)))

\* afterHubGet dropping the cached document when the connection fails
afterHubGetForgetting(g) ==
    IF g.resp.kind = "timeout" THEN Raise(g.st, "WiserHubTimeoutException")
    ELSE IF g.resp.kind = "connerr"
         THEN Return([g.st EXCEPT !.wiserHubData = None], None)
    ELSE IF raisesHTTPError(g.resp.status) THEN onHTTPError(g.st, g.resp.status)
    ELSE IF g.resp.body = None THEN Raise(g.st, "JSONDecodeError")
    ELSE afterNetworkGet(getNetwork(indexRooms(storeHubData(g))))

\* refreshData from the answer g to the hub GET on
afterHubGet(g) ==
    IF g.resp.kind = "timeout" THEN Raise(g.st, "WiserHubTimeoutException")
    ELSE IF g.resp.kind = "connerr" THEN Return(g.st, g.st.wiserHubData)
    ELSE IF raisesHTTPError(g.resp.status) THEN onHTTPError(g.st, g.resp.status)
    ELSE IF g.resp.body = None THEN Raise(g.st, "JSONDecodeError")
    ELSE afterNetworkGet(getNetwork(indexRooms(storeHubData(g))))

refreshData(st) == afterHubGet(getHub(st))

\* the second "if self.wiserHubData is None" of checkHubData
stillNull(r) ==
    IF r.exc # "" THEN r
    ELSE IF r.st.wiserHubData = None THEN Raise(r.st, "WiserHubDataNull")
    ELSE Return(r.st, None)

\* checkHubData refreshing whether or not a document is cached
checkHubDataAlways(st) == stillNull(refreshData(st))

checkHubData(st) ==
    stillNull(IF st.wiserHubData = None THEN refreshData(st) ELSE Return(st, None))

\* a method body after its leading self.checkHubData(): c is the outcome of
\* the check, v the value the method goes on to return
thenReturn(c, v) == IF c.exc # "" THEN c ELSE Return(c.st, v)

hubSection(c, name) == IF c.exc # "" THEN None ELSE c.st.wiserHubData.val[name]

sectionFrom(c, name) == thenReturn(c, hubSection(c, name))

getRooms(st) == sectionFrom(checkHubData(st), "Room")

-----------------------------------------------------------------------------
(* Read accessors *)

getHubDataFrom(c) == IF c.exc # "" THEN c ELSE Return(c.st, c.st.wiserHubData)

getHubData(st) == getHubDataFrom(checkHubData(st))

\* self.wiserNetworkData.get("Station").get(field)
networkField(st, field) ==
    IF st.wiserNetworkData = None THEN Raise(st, "AttributeError")
    ELSE Return(st, Some(st.wiserNetworkData.val.Station[field]))

getWiserHubName(st) == networkField(st, "MdnsHostname")

getMACAddress(st) == networkField(st, "MacAddress")

\* for x in seq: if x.get("id") == id: return x
RECURSIVE findById(_, _)
findById(seq, id) ==
    IF seq = <<>> THEN None
    ELSE IF Head(seq).id = id THEN Some(Head(seq))
    ELSE findById(Tail(seq), id)

\* getRoom after its checkHubData
getRoomFrom(c, roomId) ==
    IF c.exc # "" THEN c
    ELSE IF hubSection(c, "Room") = None THEN Raise(c.st, "WiserNoRoomsFound")
    ELSE IF findById(hubSection(c, "Room").val, roomId) # None
         THEN Return(c.st, findById(hubSection(c, "Room").val, roomId))
    ELSE Raise(c.st, "WiserNotFound")

getRoom(st, roomId) == getRoomFrom(checkHubData(st), roomId)

getHotwater(st) == sectionFrom(checkHubData(st), "HotWater")

\* getDevice after its checkHubData
getDeviceFrom(c, deviceId) ==
    IF c.exc # "" THEN c
    ELSE IF hubSection(c, "Device") = None THEN Raise(c.st, "WiserNoRoomsFound")
    ELSE IF findById(hubSection(c, "Device").val, deviceId) # None
         THEN Return(c.st, findById(hubSection(c, "Device").val, deviceId))
    ELSE Raise(c.st, "WiserNotFound")

getDevice(st, deviceId) == getDeviceFrom(checkHubData(st), deviceId)

\* getSmartPlug after its checkHubData; its getHubData() calls find the
\* document cached
getSmartPlugFrom(c, smartPlugId) ==
    IF c.exc # "" THEN c
    ELSE IF hubSection(c, "SmartPlug") = None THEN Raise(c.st, "WiserNotFound")
    ELSE IF findById(hubSection(c, "SmartPlug").val, smartPlugId) # None
         THEN Return(c.st, findById(hubSection(c, "SmartPlug").val, smartPlugId))
    ELSE Raise(c.st, "WiserNotFound")

getSmartPlug(st, smartPlugId) == getSmartPlugFrom(checkHubData(st), smartPlugId)

\* a getHeatingChannels that read the cached document without checkHubData
getHeatingChannelsUnchecked(st) ==
    IF st.wiserHubData = None THEN Raise(st, "AttributeError")
    ELSE Return(st, st.wiserHubData.val["HeatingChannel"])

getHeatingChannels(st) == sectionFrom(checkHubData(st), "HeatingChannel")

\* for heatingChannel in heatingChannels: if ... == "On": heatingRelayStatus = "On"
RECURSIVE relayLoop(_, _)
relayLoop(heatingChannels, heatingRelayStatus) ==
    IF heatingChannels = <<>> THEN heatingRelayStatus
    ELSE relayLoop(Tail(heatingChannels),
                   IF Head(heatingChannels).HeatingRelayState = "On" THEN "On"
                   ELSE heatingRelayStatus)

\* getHeatingRelayStatus after its getHeatingChannels(), h
relayStatusFrom(h) ==
    IF h.exc # "" THEN h
    ELSE IF h.ret = None THEN Raise(h.st, "TypeError")
    ELSE Return(h.st, Some(relayLoop(h.ret.val, "Off")))

getHeatingRelayStatus(st) == relayStatusFrom(getHeatingChannels(st))

\* a lookup that returned None for a device the index does not hold
lookupDeviceOrNone(r, deviceId) ==
    IF r.exc # "" THEN r
    ELSE IF deviceId \in DOMAIN r.st.device2roomMap
         THEN Return(r.st, Some(r.st.device2roomMap[deviceId]))
    ELSE Return(r.st, None)

\* return self.device2roomMap[deviceId]
lookupDevice(r, deviceId) ==
    IF r.exc # "" THEN r
    ELSE IF deviceId \in DOMAIN r.st.device2roomMap
         THEN Return(r.st, Some(r.st.device2roomMap[deviceId]))
    ELSE Raise(r.st, "KeyError")

\* if not self.device2roomMap: self.refreshData()
refreshIfNoIndex(c) ==
    IF c.exc # "" THEN c
    ELSE IF c.st.device2roomMap = <<>> THEN refreshData(c.st)
    ELSE Return(c.st, None)

getDeviceRoom(st, deviceId) ==
    lookupDevice(refreshIfNoIndex(checkHubData(st)), deviceId)

-----------------------------------------------------------------------------
(* Mutating operations *)

\* the text of a validated value, as it goes into a request body
Str(s) ==
    CASE s = S_On -> "On" [] s = S_Off -> "Off"
      [] s = S_Auto -> "Auto" [] s = S_Manual -> "Manual"

\* the common tail of the setters: the PATCH has been sent, p is its answer;
\* a status other than 200 raises e (setSmartPlug*: e404 for 404)
patched(p, e, e404, ret) ==
    IF p.resp.kind # "resp" THEN Raise(p.st, TransportError(p.resp))
    ELSE IF p.resp.status # 200
         THEN Raise(p.st, IF p.resp.status = 404 THEN e404 ELSE e)
    ELSE Return(p.st, ret)

\* modeMapping of setHotwaterMode
modeMapping(m) ==
    CASE m = S_on -> [RequestOverride |-> [Type |-> "Manual", SetPoint |-> DHWOnTemp]]
      [] m = S_off -> [RequestOverride |-> [Type |-> "Manual", SetPoint |-> DHWOffTemp]]
      [] m = S_auto -> [RequestOverride |-> [Type |-> "None", Mode |-> "Auto"]]

\* setHotwaterMode from "DHWId = self.wiserHubData.get("HotWater")[0].get("id")"
\* on, r being the outcome of the refresh made if no document was cached
hotwaterPatch(r, m) ==
    IF r.exc # "" THEN r
    ELSE IF r.st.wiserHubData = None THEN Raise(r.st, "AttributeError")
    ELSE IF r.st.wiserHubData.val.HotWater = None THEN Raise(r.st, "TypeError")
    ELSE IF r.st.wiserHubData.val.HotWater.val = <<>> THEN Raise(r.st, "IndexError")
    ELSE patched(patch(r.st,
                       <<"/data/domain//HotWater/", r.st.wiserHubData.val.HotWater.val[1].id>>,
                       modeMapping(m), None),
                 "WiserRESTException", "WiserRESTException", Some(TRUE))

setHotwaterMode(st, mode) ==
    IF lower(mode) \notin {S_on, S_off, S_auto} THEN Raise(st, "ValueError")
    ELSE hotwaterPatch(IF st.wiserHubData = None THEN refreshData(st)
                       ELSE Return(st, None),
                       lower(mode))

setSystemSwitch(st, switch, mode) ==
    patched(patch(st, <<"/data/domain/System">>, [k \in {switch} |-> mode],
                  Some(TIMEOUT)),
            "WiserRESTException", "WiserRESTException", None)

\* setRoomSchedule after its getRoom(roomId), g
schedulePatch(g, scheduleData) ==
    IF g.exc # "" THEN g
    ELSE IF g.ret.val.ScheduleId # None
         THEN patched(patch(g.st, WISERSCHEDULEURL(g.ret.val.ScheduleId.val),
                            scheduleData, Some(TIMEOUT)),
                      "WiserRESTException", "WiserRESTException", None)
    ELSE Raise(g.st, "WiserNotFound")

setRoomSchedule(st, roomId, scheduleData) ==
    schedulePatch(getRoom(st, roomId), scheduleData)

\* setRoomScheduleFromFile after its getRoom(roomId), g; the file is there
\* or not, and holds JSON (Some) or not (None)
scheduleFilePatch(g, file) ==
    IF g.exc # "" THEN g
    ELSE IF g.ret.val.ScheduleId = None THEN Raise(g.st, "WiserNotFound")
    ELSE IF ~file.exists THEN Raise(g.st, "FileNotFoundError")
    ELSE IF file.data = None THEN Raise(g.st, "Exception")
    ELSE patched(patch(g.st, WISERSCHEDULEURL(g.ret.val.ScheduleId.val),
                       file.data.val, Some(TIMEOUT)),
                 "WiserRESTException", "WiserRESTException", None)

setRoomScheduleFromFile(st, roomId, scheduleFile) ==
    scheduleFilePatch(getRoom(st, roomId), scheduleFile)

\* getRoomSchedule from "scheduleId = self.getRoom(roomId).get("ScheduleId")"
\* on, g being the outcome of getRoom(roomId)
scheduleOfRoom(g) ==
    IF g.exc # "" THEN g
    ELSE IF g.ret.val.ScheduleId = None THEN Raise(g.st, "WiserNotFound")
    ELSE IF g.st.wiserHubData.val.Schedule = None THEN Raise(g.st, "TypeError")
    ELSE IF findById(g.st.wiserHubData.val.Schedule.val, g.ret.val.ScheduleId.val) = None
         THEN Raise(g.st, "WiserNotFound")
    ELSE Return(g.st, findById(g.st.wiserHubData.val.Schedule.val,
                               g.ret.val.ScheduleId.val))

\* the checkHubData() and the getRoom() calls of getRoomSchedule come to
\* one getRoom(): each starts with checkHubData() and none changes the object
\* once a document is cached
getRoomSchedule(st, roomId) == scheduleOfRoom(getRoom(st, roomId))

\* copyRoomSchedule after its getRoomSchedule(fromRoomId), d
copyTo(d, toRoomId) ==
    IF d.exc # "" THEN d
    ELSE IF d.ret # None THEN setRoomSchedule(d.st, toRoomId, d.ret.val)
    ELSE Raise(d.st, "WiserNotFound")

copyRoomSchedule(st, fromRoomId, toRoomId) ==
    copyTo(getRoomSchedule(st, fromRoomId), toRoomId)

\* patchData of setHomeAwayMode
homeAwayBody(mode, temperature) ==
    IF mode = S_AWAY THEN [type |-> 2, setPoint |-> toWiserTemp(temperature.val)]
    ELSE [type |-> 0, setPoint |-> 0]

\* a setHomeAwayMode that checked the temperature whatever the mode
setHomeAwayModeChecked(st, mode, temperature) ==
    IF mode \notin {S_HOME, S_AWAY} THEN Raise(st, "ValueError")
    ELSE IF temperature = None THEN Raise(st, "ValueError")
    ELSE IF ~checkTempRange(temperature.val) THEN Raise(st, "ValueError")
    ELSE patched(patch(st, WISERMODEURL, homeAwayBody(mode, temperature),
                       Some(TIMEOUT)),
                 "ValueError", "ValueError", None)

setHomeAwayMode(st, mode, temperature) ==
    IF mode \notin {S_HOME, S_AWAY} THEN Raise(st, "ValueError")
    ELSE IF mode = S_AWAY /\ temperature = None THEN Raise(st, "ValueError")
    ELSE IF mode = S_AWAY /\ ~checkTempRange(temperature.val) THEN Raise(st, "ValueError")
    ELSE patched(patch(st, WISERMODEURL, homeAwayBody(mode, temperature),
                       Some(TIMEOUT)),
                 "ValueError", "ValueError", None)

setRoomTemperature(st, roomId, temperature) ==
    IF ~checkTempRange(temperature) THEN Raise(st, "ValueError")
    ELSE patched(patch(st, WISERSETROOMTEMP(roomId),
                       [RequestOverride |->
                            [Type |-> "Manual", SetPoint |-> toWiserTemp(temperature)]],
                       Some(TIMEOUT)),
                 "WiserRESTException", "WiserRESTException", None)

\* a setRoomMode that sent the scheduled set-point as it is
noMinimum(setTemp) == setTemp

\* setTemp = setTemp if setTemp >= TEMP_MINIMUM else TEMP_MINIMUM
atLeastMinimum(setTemp) == IF setTemp >= C(TEMP_MINIMUM) THEN setTemp ELSE C(TEMP_MINIMUM)

\* the "manual" branch of setRoomMode after its getRoom(roomId), g
manualBody(g) ==
    IF g.exc # "" THEN g
    ELSE Return(g.st,
                [Mode |-> "Manual",
                 RequestOverride |->
                    [Type |-> "Manual",
                     SetPoint |-> toWiserTemp(atLeastMinimum(
                                    fromWiserTemp(g.ret.val.ScheduledSetPoint)))]])

\* the if/elif chain of setRoomMode that builds patchData, m being mode.lower()
patchDataFor(st, roomId, m, boost_temp, boost_temp_time) ==
    IF m = S_auto THEN Return(st, [Mode |-> "Auto"])
    ELSE IF m = S_boost
         THEN IF boost_temp < C(TEMP_MINIMUM) \/ boost_temp > C(TEMP_MAXIMUM)
              THEN Raise(st, "ValueError")
              ELSE Return(st, [RequestOverride |->
                                [Type |-> "Manual",
                                 DurationMinutes |-> boost_temp_time,
                                 SetPoint |-> toWiserTemp(boost_temp),
                                 Originator |-> "App"]])
    ELSE IF m = S_manual THEN manualBody(getRoom(st, roomId))
    ELSE IF m = S_off
         THEN Return(st, [Mode |-> "Manual",
                          RequestOverride |->
                            [Type |-> "Manual", SetPoint |-> toWiserTemp(C(TEMP_OFF))]])
    ELSE Raise(st, "ValueError")

\* a setRoomMode that compared the mode as it was given
roomModeBodyExact(st, roomId, mode, boost_temp, boost_temp_time) ==
    patchDataFor(st, roomId, mode, boost_temp, boost_temp_time)

roomModeBody(st, roomId, mode, boost_temp, boost_temp_time) ==
    patchDataFor(st, roomId, lower(mode), boost_temp, boost_temp_time)

cancelBoostPostData ==
    [RequestOverride |->
        [Type |-> "None", DurationMinutes |-> 0, SetPoint |-> 0, Originator |-> "App"]]

\* "Set new mode": the PATCH of patchData
setNewMode(st, roomId, patchData) ==
    patched(patch(st, WISERROOM(roomId), patchData, Some(TIMEOUT)),
            "WiserRESTException", "WiserRESTException", None)

\* a setRoomMode that went on whatever the cancellation PATCH answered
afterCancelAnyway(c, roomId, patchData) ==
    IF c.exc \notin {"", "WiserRESTException"} THEN c
    ELSE setNewMode(c.st, roomId, patchData)

\* setRoomMode after the cancellation PATCH, c being its outcome
afterCancel(c, roomId, patchData) ==
    IF c.exc # "" THEN c ELSE setNewMode(c.st, roomId, patchData)

\* a setRoomMode that cancelled the current override in every mode
sendRoomModeCancelling(b, roomId, mode) ==
    IF b.exc # "" THEN b
    ELSE afterCancel(patched(patch(b.st, WISERROOM(roomId), cancelBoostPostData,
                                   Some(TIMEOUT)),
                             "WiserRESTException", "WiserRESTException", None),
                     roomId, b.ret)

\* setRoomMode from "if mode.lower() != "boost"" on, b holding patchData
sendRoomMode(b, roomId, mode) ==
    IF b.exc # "" THEN b
    ELSE IF lower(mode) # S_boost
         THEN afterCancel(patched(patch(b.st, WISERROOM(roomId), cancelBoostPostData,
                                        Some(TIMEOUT)),
                                  "WiserRESTException", "WiserRESTException", None),
                          roomId, b.ret)
    ELSE setNewMode(b.st, roomId, b.ret)

setRoomMode(st, roomId, mode, boost_temp, boost_temp_time) ==
    sendRoomMode(roomModeBody(st, roomId, mode, boost_temp, boost_temp_time),
                 roomId, mode)

\* a setSmartPlugState that took the state as it was given
setSmartPlugStateExact(st, smartPlugId, smartPlugState) ==
    IF smartPlugState \notin {S_On, S_Off} THEN Raise(st, "ValueError")
    ELSE patched(patch(st, WISERSMARTPLUGURL(smartPlugId),
                       [RequestOutput |-> Str(smartPlugState)], Some(TIMEOUT)),
                 "WiserRESTException", "WiserNotFound", None)

setSmartPlugState(st, smartPlugId, smartPlugState) ==
    IF title(smartPlugState) \notin {S_On, S_Off} THEN Raise(st, "ValueError")
    ELSE patched(patch(st, WISERSMARTPLUGURL(smartPlugId),
                       [RequestOutput |-> Str(title(smartPlugState))], Some(TIMEOUT)),
                 "WiserRESTException", "WiserNotFound", None)

setSmartPlugMode(st, smartPlugId, smartPlugMode) ==
    IF title(smartPlugMode) \notin {S_Auto, S_Manual} THEN Raise(st, "ValueError")
    ELSE patched(patch(st, WISERSMARTPLUGURL(smartPlugId),
                       [Mode |-> Str(title(smartPlugMode))], Some(TIMEOUT)),
                 "WiserRESTException", "WiserNotFound", None)

-----------------------------------------------------------------------------
(* Actions: one per public method.  HR and NR are the answers the hub can  *)
(* give to the two GETs of a refresh.                                      *)

NoCall == [op |-> "none", args |-> <<>>, exc |-> "", ret |-> None, reqs |-> <<>>]

\* a thread that is in no call of the object: pc is where it is in its
\* call, back where it goes on when the refreshData it is in returns, resp,
\* rooms and valves the locals of refreshData, seen the document that was
\* cached when its last getDeviceRoom ended
Idle ==
    [pc |-> "idle", op |-> "none", deviceId |-> 0, back |-> "idle", resp |-> None,
     rooms |-> <<>>, valves |-> <<>>, reqs |-> <<>>, seen |-> None]

NoThreads == [refresher |-> Idle, reader |-> Idle]

Init ==
    /\ wiserHubData = None
    /\ wiserNetworkData = None
    /\ WiserNetworkData = None
    /\ device2roomMap = <<>>
    /\ phase = "new"
    /\ call = NoCall
    /\ threads = NoThreads
    /\ serialised = TRUE

\* the object at the start of a call, with the answers o the hub will give
Cur(o) ==
    [wiserHubData |-> wiserHubData, wiserNetworkData |-> wiserNetworkData,
     WiserNetworkData |-> WiserNetworkData, device2roomMap |-> device2roomMap,
     reqs |-> <<>>, hubResp |-> o.hub, netResp |-> o.net, patchResp |-> o.patch]

\* the answers to k refreshes and to the PATCHes, ps
Answers(HR, NR, k, ps) ==
    {[hub |-> hs, net |-> ns, patch |-> ps] : hs \in [1..k -> HR], ns \in [1..k -> NR]}

Logged(r, op, args) ==
    [op |-> op, args |-> args, exc |-> r.exc, ret |-> r.ret, reqs |-> r.st.reqs]

\* the call is over: the object keeps the fields the method left
Finish(r, op, args) ==
    /\ wiserHubData' = r.st.wiserHubData
    /\ wiserNetworkData' = r.st.wiserNetworkData
    /\ WiserNetworkData' = r.st.WiserNetworkData
    /\ device2roomMap' = r.st.device2roomMap
    /\ call' = Logged(r, op, args)
    /\ UNCHANGED <<phase, threads, serialised>>

\* the end of __init__, r being the outcome of its refreshData()
Constructed(r) ==
    /\ UNCHANGED <<threads, serialised>>
    /\ IF r.exc = ""
       THEN /\ wiserHubData' = r.st.wiserHubData
            /\ wiserNetworkData' = r.st.wiserNetworkData
            /\ WiserNetworkData' = r.st.WiserNetworkData
            /\ device2roomMap' = r.st.device2roomMap
            /\ phase' = "ready"
            /\ call' = Logged(r, "__init__", <<>>)
       ELSE /\ call' = Logged(r, "__init__", <<>>)
            /\ UNCHANGED <<wiserHubData, wiserNetworkData, WiserNetworkData,
                           device2roomMap, phase>>

\* wiserHub(hubIP, secret): __init__ sets the fields and issues the first
\* refresh; if that raises, no object results
Construct(HR, NR) ==
    /\ phase = "new"
    /\ \E o \in Answers(HR, NR, 1, <<>>) : Constructed(refreshData(Cur(o)))

RefreshData(HR, NR) ==
    /\ phase = "ready"
    /\ \E o \in Answers(HR, NR, 1, <<>>) :
        Finish(refreshData(Cur(o)), "refreshData", <<>>)

\* how many refreshes a method that starts with checkHubData makes
NeedRefresh == IF wiserHubData = None THEN 1 ELSE 0

GetHubData(HR, NR) ==
    /\ phase = "ready"
    /\ \E o \in Answers(HR, NR, NeedRefresh, <<>>) :
        Finish(getHubData(Cur(o)), "getHubData", <<>>)

GetRooms(HR, NR) ==
    /\ phase = "ready"
    /\ \E o \in Answers(HR, NR, NeedRefresh, <<>>) :
        Finish(getRooms(Cur(o)), "getRooms", <<>>)

GetRoom(HR, NR) ==
    /\ phase = "ready"
    /\ \E roomId \in RoomIds \cup {UnknownRoom},
          o \in Answers(HR, NR, NeedRefresh, <<>>) :
        Finish(getRoom(Cur(o), roomId), "getRoom", [roomId |-> roomId])

GetHotwater(HR, NR) ==
    /\ phase = "ready"
    /\ \E o \in Answers(HR, NR, NeedRefresh, <<>>) :
        Finish(getHotwater(Cur(o)), "getHotwater", <<>>)

GetWiserHubName ==
    /\ phase = "ready"
    /\ \E o \in Answers({}, {}, 0, <<>>) :
        Finish(getWiserHubName(Cur(o)), "getWiserHubName", <<>>)

GetMACAddress ==
    /\ phase = "ready"
    /\ \E o \in Answers({}, {}, 0, <<>>) :
        Finish(getMACAddress(Cur(o)), "getMACAddress", <<>>)

\* the answers to the second refresh of getDeviceRoom, if it makes one
SecondAnswers(HR, NR, first) ==
    Answers(HR, NR, IF first.exc = "" /\ first.st.device2roomMap = <<>> THEN 1 ELSE 0,
            <<>>)

Both(o1, o2) == [hub |-> o1.hub \o o2.hub, net |-> o1.net \o o2.net, patch |-> <<>>]

\* getDeviceRoom refreshes once more when checkHubData leaves the index empty
GetDeviceRoom(HR, NR) ==
    /\ phase = "ready"
    /\ \E deviceId \in Devs \cup {MaxDevice + 1}, o1 \in Answers(HR, NR, NeedRefresh, <<>>) :
        \E o2 \in SecondAnswers(HR, NR, checkHubData(Cur(o1))) :
            Finish(getDeviceRoom(Cur(Both(o1, o2)), deviceId), "getDeviceRoom",
                   [deviceId |-> deviceId])

GetDevice(HR, NR) ==
    /\ phase = "ready"
    /\ \E deviceId \in 1..UnknownRoom,
          o \in Answers(HR, NR, NeedRefresh, <<>>) :
        Finish(getDevice(Cur(o), deviceId), "getDevice", [deviceId |-> deviceId])

GetSmartPlug(HR, NR) ==
    /\ phase = "ready"
    /\ \E smartPlugId \in 1..UnknownRoom,
          o \in Answers(HR, NR, NeedRefresh, <<>>) :
        Finish(getSmartPlug(Cur(o), smartPlugId), "getSmartPlug",
               [smartPlugId |-> smartPlugId])

GetHeatingRelayStatus(HR, NR) ==
    /\ phase = "ready"
    /\ \E o \in Answers(HR, NR, NeedRefresh, <<>>) :
        Finish(getHeatingRelayStatus(Cur(o)), "getHeatingRelayStatus", <<>>)

\* the answers to the PATCHes of a call: one, or a 200 and then another
PatchAnswers(n) ==
    {<<p>> : p \in PatchResponses}
    \cup (IF n > 1
          THEN {<<[kind |-> "resp", status |-> 200], p>> : p \in PatchResponses}
          ELSE {})

S_ON == <<"O","N">>
S_AuTO == <<"A","u","T","O">>
S_BOOST == <<"B","O","O","S","T">>
S_eco == <<"e","c","o">>
S_home == <<"h","o","m","e">>
S_away == <<"a","w","a","y">>
S_maybe == <<"m","a","y","b","e">>

HotwaterModes == {S_ON, S_off, S_auto, S_eco}

SetHotwaterMode(HR, NR) ==
    /\ phase = "ready"
    /\ \E mode \in HotwaterModes, ps \in PatchAnswers(1) :
        \E o \in Answers(HR, NR, NeedRefresh, ps) :
            Finish(setHotwaterMode(Cur(o), mode), "setHotwaterMode", [mode |-> mode])

SetSystemSwitch ==
    /\ phase = "ready"
    /\ \E mode \in BOOLEAN, ps \in PatchAnswers(1) :
        \E o \in Answers({}, {}, 0, ps) :
            Finish(setSystemSwitch(Cur(o), "EcoModeEnabled", mode), "setSystemSwitch",
                   [switch |-> "EcoModeEnabled", mode |-> mode])

AllRooms == RoomIds \cup {UnknownRoom}

\* a schedule payload no document holds
NewSchedule == [id |-> 9, Type |-> "Heating", Monday |-> 109]

SetRoomSchedule(HR, NR) ==
    /\ phase = "ready"
    /\ \E roomId \in AllRooms, ps \in PatchAnswers(1) :
        \E o \in Answers(HR, NR, NeedRefresh, ps) :
            Finish(setRoomSchedule(Cur(o), roomId, NewSchedule), "setRoomSchedule",
                   [roomId |-> roomId, scheduleData |-> NewSchedule])

ScheduleFiles ==
    {[exists |-> FALSE, data |-> None], [exists |-> TRUE, data |-> None],
     [exists |-> TRUE, data |-> Some(NewSchedule)]}

SetRoomScheduleFromFile(HR, NR) ==
    /\ phase = "ready"
    /\ \E roomId \in {1, UnknownRoom}, file \in ScheduleFiles, ps \in PatchAnswers(1) :
        \E o \in Answers(HR, NR, NeedRefresh, ps) :
            Finish(setRoomScheduleFromFile(Cur(o), roomId, file),
                   "setRoomScheduleFromFile", [roomId |-> roomId, scheduleFile |-> file])

CopyRoomSchedule(HR, NR) ==
    /\ phase = "ready"
    /\ \E fromRoomId \in AllRooms, toRoomId \in AllRooms, ps \in PatchAnswers(1) :
        \E o \in Answers(HR, NR, NeedRefresh, ps) :
            Finish(copyRoomSchedule(Cur(o), fromRoomId, toRoomId), "copyRoomSchedule",
                   [fromRoomId |-> fromRoomId, toRoomId |-> toRoomId])

\* temperatures on and off the range [TEMP_MINIMUM, TEMP_MAXIMUM], in hundredths
Temperatures ==
    {C(TEMP_OFF), C(TEMP_MINIMUM) - 1, C(TEMP_MINIMUM), 2055, C(22),
     C(TEMP_MAXIMUM), C(TEMP_MAXIMUM) + 1}

SetHomeAwayMode ==
    /\ phase = "ready"
    /\ \E mode \in {S_HOME, S_AWAY, S_home, S_away} :
        \E temperature \in (IF mode = S_AWAY
                             THEN {None} \cup {Some(t) : t \in Temperatures}
                             ELSE {Some(C(10)), Some(C(TEMP_MAXIMUM) + 1)}),
           ps \in PatchAnswers(1) :
        \E o \in Answers({}, {}, 0, ps) :
            Finish(setHomeAwayMode(Cur(o), mode, temperature), "setHomeAwayMode",
                   [mode |-> mode, temperature |-> temperature])

SetRoomTemperature ==
    /\ phase = "ready"
    /\ \E roomId \in {1}, temperature \in Temperatures, ps \in PatchAnswers(1) :
        \E o \in Answers({}, {}, 0, ps) :
            Finish(setRoomTemperature(Cur(o), roomId, temperature), "setRoomTemperature",
                   [roomId |-> roomId, temperature |-> temperature])

RoomModes == {S_auto, S_AuTO, S_boost, S_BOOST, S_manual, S_off, S_eco}

\* the boost arguments: every temperature for the default 30 minutes, and
\* another duration; they keep their defaults unless the mode is a boost
BoostArgs(mode) ==
    IF mode = S_boost
    THEN {[temp |-> t, time |-> 30] : t \in Temperatures} \cup {[temp |-> C(22), time |-> 45]}
    ELSE IF mode = S_BOOST THEN {[temp |-> C(22), time |-> 45], [temp |-> C(4), time |-> 30]}
    ELSE {[temp |-> C(20), time |-> 30]}

SetRoomMode(HR, NR) ==
    /\ phase = "ready"
    /\ \E mode \in RoomModes :
        \E roomId \in (IF mode = S_manual THEN {1, UnknownRoom} ELSE {1}),
           b \in BoostArgs(mode),
           ps \in PatchAnswers(IF lower(mode) = S_boost THEN 1 ELSE 2) :
            \E o \in Answers(HR, NR, IF mode = S_manual THEN NeedRefresh ELSE 0, ps) :
                Finish(setRoomMode(Cur(o), roomId, mode, b.temp, b.time),
                       "setRoomMode",
                       [roomId |-> roomId, mode |-> mode, boost_temp |-> b.temp,
                        boost_temp_time |-> b.time])

\* the smart plug setters tell a 404 from the other refusals
PlugPatchAnswers == PatchAnswers(1) \cup {<<[kind |-> "resp", status |-> 500]>>}

PlugStates == {S_on, S_ON, S_Off, S_maybe}
PlugModes == {S_auto, S_AuTO, S_manual, S_maybe}

SetSmartPlugState ==
    /\ phase = "ready"
    /\ \E smartPlugState \in PlugStates, ps \in PlugPatchAnswers :
        \E o \in Answers({}, {}, 0, ps) :
            Finish(setSmartPlugState(Cur(o), 1, smartPlugState), "setSmartPlugState",
                   [smartPlugId |-> 1, smartPlugState |-> smartPlugState])

SetSmartPlugMode ==
    /\ phase = "ready"
    /\ \E smartPlugMode \in PlugModes, ps \in PlugPatchAnswers :
        \E o \in Answers({}, {}, 0, ps) :
            Finish(setSmartPlugMode(Cur(o), 1, smartPlugMode), "setSmartPlugMode",
                   [smartPlugId |-> 1, smartPlugMode |-> smartPlugMode])

\* The snapshot and its readers: construction, refresh and the read
\* accessors, against a hub that gives every kind of answer
ReadHub == HubResponses(ReadDocs)

Next ==
    \/ Construct(ReadHub, NetResponses)
    \/ RefreshData(ReadHub, NetResponses)
    \/ GetHubData(ReadHub, NetResponses)
    \/ GetRooms(ReadHub, NetResponses)
    \/ GetRoom(ReadHub, NetResponses)
    \/ GetHotwater(ReadHub, NetResponses)
    \/ GetWiserHubName
    \/ GetMACAddress
    \/ GetDeviceRoom(ReadHub, NetResponses)

Spec == Init /\ [][Next]_vars

\* The device-room index: construction and refresh against a hub whose
\* documents place the devices in the rooms in every way
IndexHub == {h \in HubResponses(SnapshotDocs) : h.kind # "resp" \/ h.body # None}
IndexNet == {n \in NetResponses : n.kind = "connerr" \/ n.content = <<"J1">>}

NextIndex ==
    \/ Construct(IndexHub, IndexNet)
    \/ RefreshData(IndexHub, IndexNet)

SpecIndex == Init /\ [][NextIndex]_vars

\* The command dispatcher: construction, refresh and the mutating
\* operations, against a hub whose documents differ in what the setters look up
CmdHub == {h \in HubResponses(CmdDocs) : h.kind = "connerr" \/ h.body # None}
CmdNet == {n \in NetResponses : n.content = <<"J1">>}

NextDispatch ==
    \/ Construct(CmdHub, CmdNet)
    \/ RefreshData(CmdHub, CmdNet)
    \/ SetHotwaterMode(CmdHub, CmdNet)
    \/ SetSystemSwitch
    \/ SetRoomSchedule(CmdHub, CmdNet)
    \/ SetRoomScheduleFromFile(CmdHub, CmdNet)
    \/ CopyRoomSchedule(CmdHub, CmdNet)
    \/ SetHomeAwayMode
    \/ SetRoomTemperature
    \/ SetRoomMode(CmdHub, CmdNet)
    \/ SetSmartPlugState
    \/ SetSmartPlugMode

SpecDispatch == Init /\ [][NextDispatch]_vars

\* The by-id lookups and the relay status, against a hub whose documents
\* hold each section absent, empty or filled
LookupHub == {h \in HubResponses(LookupDocs) : h.kind # "resp" \/ h.body # None}
LookupNet == {n \in NetResponses : n.content = <<"J1">>}

NextLookup ==
    \/ Construct(LookupHub, LookupNet)
    \/ RefreshData(LookupHub, LookupNet)
    \/ GetRoom(LookupHub, LookupNet)
    \/ GetDevice(LookupHub, LookupNet)
    \/ GetSmartPlug(LookupHub, LookupNet)
    \/ GetHeatingRelayStatus(LookupHub, LookupNet)

SpecLookup == Init /\ [][NextLookup]_vars

-----------------------------------------------------------------------------
(* Two threads on one object: the refresher calls refreshData and the     *)
(* reader getDeviceRoom.  A step of a thread is one read or one write of  *)
(* a field of the object, or one exchange with the hub.  When the callers *)
(* serialise their calls, a call starts only when no other is running.    *)

Threads == {"refresher", "reader"}

\* the hub's documents: every device in room 1 (device 1 its thermostat),
\* every device a valve of room 2
ThreadDocs ==
    {PlacedDoc(2, [d \in Devs |-> [room |-> 1, kind |-> IF d = 1 THEN "stat" ELSE "valve"]]),
     PlacedDoc(2, [d \in Devs |-> [room |-> 2, kind |-> "valve"]])}

\* the hub answers with a document, or cannot be reached
ThreadHub == {h \in HubResponses(ThreadDocs) : h.kind = "connerr" \/ h.body # None}
ThreadNet == {n \in NetResponses : n.content = <<"J1">>}

InitThreads ==
    /\ wiserHubData = None
    /\ wiserNetworkData = None
    /\ WiserNetworkData = None
    /\ device2roomMap = <<>>
    /\ phase = "new"
    /\ call = NoCall
    /\ threads = NoThreads
    /\ serialised \in BOOLEAN

\* the object as thread t finds it, with the exchanges of t's call so far
\* and the answers the hub gives next
CurOf(t, hub, net) ==
    [Cur([hub |-> hub, net |-> net, patch |-> <<>>]) EXCEPT !.reqs = threads[t].reqs]

MayCall(t) ==
    /\ phase = "ready"
    /\ threads[t].pc = "idle"
    /\ serialised => \A u \in Threads : threads[u].pc = "idle"

At(t, pc) == phase = "ready" /\ threads[t].pc = pc

Store(r) ==
    /\ wiserHubData' = r.st.wiserHubData
    /\ wiserNetworkData' = r.st.wiserNetworkData
    /\ WiserNetworkData' = r.st.WiserNetworkData
    /\ device2roomMap' = r.st.device2roomMap

\* thread t goes on to pc; nothing else changes
Goto(t, pc) ==
    /\ threads' = [threads EXCEPT ![t].pc = pc]
    /\ UNCHANGED <<wiserHubData, wiserNetworkData, WiserNetworkData, device2roomMap,
                   phase, call, serialised>>

\* thread t goes into refreshData, to go on at back when it returns
GoRefresh(t, back) ==
    /\ threads' = [threads EXCEPT ![t].pc = "get", ![t].back = back]
    /\ UNCHANGED <<wiserHubData, wiserNetworkData, WiserNetworkData, device2roomMap,
                   phase, call, serialised>>

\* the call of thread t is over with outcome r
EndCall(t, r) ==
    /\ Store(r)
    /\ call' = Logged(r, threads[t].op,
                      IF threads[t].op = "getDeviceRoom"
                      THEN [deviceId |-> threads[t].deviceId] ELSE <<>>)
    /\ threads' = [threads EXCEPT
                     ![t] = [Idle EXCEPT !.seen = IF threads[t].op = "getDeviceRoom"
                                                  THEN r.st.wiserHubData ELSE None]]
    /\ UNCHANGED <<phase, serialised>>

\* the refreshData thread t is in is over with outcome r: what it raises
\* ends the call of t, and so does its return when refreshData is the call
EndRefresh(t, r) ==
    IF r.exc # "" \/ threads[t].back = "return" THEN EndCall(t, r)
    ELSE /\ Store(r)
         /\ threads' = [threads EXCEPT ![t].pc = threads[t].back, ![t].reqs = r.st.reqs,
                                       ![t].resp = None, ![t].rooms = <<>>,
                                       ![t].valves = <<>>]
         /\ UNCHANGED <<phase, call, serialised>>

CallRefreshData ==
    /\ MayCall("refresher")
    /\ threads' = [threads EXCEPT !.refresher.pc = "get", !.refresher.op = "refreshData",
                                  !.refresher.back = "return"]
    /\ UNCHANGED <<wiserHubData, wiserNetworkData, WiserNetworkData, device2roomMap,
                   phase, call, serialised>>

CallGetDeviceRoom ==
    /\ MayCall("reader")
    /\ \E deviceId \in {1, MaxDevice} :
        threads' = [threads EXCEPT !.reader.pc = "check1", !.reader.op = "getDeviceRoom",
                                   !.reader.deviceId = deviceId]
    /\ UNCHANGED <<wiserHubData, wiserNetworkData, WiserNetworkData, device2roomMap,
                   phase, call, serialised>>

\* resp = requests.get(...); resp.raise_for_status(); resp.json(), g being
\* the answer to the GET: a document that parsed is kept in the local resp
HubGot(t, g) ==
    IF g.resp.kind = "resp" /\ ~raisesHTTPError(g.resp.status) /\ g.resp.body # None
    THEN /\ threads' = [threads EXCEPT ![t].pc = "assign", ![t].resp = g.resp.body,
                                       ![t].reqs = g.st.reqs]
         /\ UNCHANGED <<wiserHubData, wiserNetworkData, WiserNetworkData, device2roomMap,
                        phase, call, serialised>>
    ELSE EndRefresh(t, afterHubGet(g))

HubGet(t) ==
    /\ At(t, "get")
    /\ \E a \in ThreadHub : HubGot(t, getHub(CurOf(t, <<a>>, <<>>)))

\* self.wiserHubData = resp.json()
AssignHubData(t) ==
    /\ At(t, "assign")
    /\ wiserHubData' = threads[t].resp
    /\ threads' = [threads EXCEPT ![t].pc = "rooms"]
    /\ UNCHANGED <<wiserNetworkData, WiserNetworkData, device2roomMap, phase, call,
                   serialised>>

\* if self.getRooms() is not None
TestRooms(t) ==
    /\ At(t, "rooms")
    /\ Goto(t, IF roomsOf(CurOf(t, <<>>, <<>>)) # None THEN "iter" ELSE "net")

\* the thread at the head of its loop over the rooms
nextRoom(th) == [th EXCEPT !.pc = IF th.rooms = <<>> THEN "net" ELSE "stat"]

\* the thread at the head of its loop over the valves of a room
nextValve(th) ==
    IF th.valves = <<>> THEN nextRoom([th EXCEPT !.rooms = Tail(@)])
    ELSE [th EXCEPT !.pc = "valve"]

\* for room in self.getRooms(): the rooms of the document cached now
IterRooms(t) ==
    /\ At(t, "iter")
    /\ IF roomsOf(CurOf(t, <<>>, <<>>)) = None
       THEN EndRefresh(t, Raise(CurOf(t, <<>>, <<>>), "TypeError"))
       ELSE /\ threads' = [threads EXCEPT
                             ![t] = nextRoom([@ EXCEPT !.rooms =
                                                roomsOf(CurOf(t, <<>>, <<>>)).val])]
            /\ UNCHANGED <<wiserHubData, wiserNetworkData, WiserNetworkData,
                           device2roomMap, phase, call, serialised>>

IndexRoomStat(t) ==
    /\ At(t, "stat")
    /\ device2roomMap' = addRoomStat(device2roomMap, Head(threads[t].rooms))
    /\ threads' = [threads EXCEPT
                     ![t] = nextValve([@ EXCEPT !.valves = valvesOf(Head(threads[t].rooms))])]
    /\ UNCHANGED <<wiserHubData, wiserNetworkData, WiserNetworkData, phase, call,
                   serialised>>

\* self.device2roomMap[valveId] = {...} for one valve
IndexValve(t) ==
    /\ At(t, "valve")
    /\ device2roomMap' = DictSet(device2roomMap, Head(threads[t].valves),
                                 RoomInfo(Head(threads[t].rooms)))
    /\ threads' = [threads EXCEPT ![t] = nextValve([@ EXCEPT !.valves = Tail(@)])]
    /\ UNCHANGED <<wiserHubData, wiserNetworkData, WiserNetworkData, phase, call,
                   serialised>>

\* the network GET of refreshData and all that follows it
NetworkGet(t) ==
    /\ At(t, "net")
    /\ \E a \in ThreadNet :
        EndRefresh(t, afterNetworkGet(getNetwork(CurOf(t, <<>>, <<a>>))))

\* checkHubData: if self.wiserHubData is None: self.refreshData()
CheckHubData ==
    /\ At("reader", "check1")
    /\ IF wiserHubData = None THEN GoRefresh("reader", "check2")
       ELSE Goto("reader", "check2")

\* checkHubData: if self.wiserHubData is None: raise WiserHubDataNull
StillNull ==
    /\ At("reader", "check2")
    /\ IF wiserHubData = None
       THEN EndCall("reader", Raise(CurOf("reader", <<>>, <<>>), "WiserHubDataNull"))
       ELSE Goto("reader", "test")

\* if not self.device2roomMap: self.refreshData()
TestIndex ==
    /\ At("reader", "test")
    /\ IF device2roomMap = <<>> THEN GoRefresh("reader", "lookup")
       ELSE Goto("reader", "lookup")

\* return self.device2roomMap[deviceId]
Lookup ==
    /\ At("reader", "lookup")
    /\ EndCall("reader", lookupDevice(Return(CurOf("reader", <<>>, <<>>), None),
                                      threads.reader.deviceId))

NextThreads ==
    \/ Construct(ThreadHub, ThreadNet)
    \/ CallRefreshData
    \/ CallGetDeviceRoom
    \/ \E t \in Threads : HubGet(t)
    \/ \E t \in Threads : AssignHubData(t)
    \/ \E t \in Threads : TestRooms(t)
    \/ \E t \in Threads : IterRooms(t)
    \/ \E t \in Threads : IndexRoomStat(t)
    \/ \E t \in Threads : IndexValve(t)
    \/ \E t \in Threads : NetworkGet(t)
    \/ CheckHubData
    \/ StillNull
    \/ TestIndex
    \/ Lookup

SpecThreads == InitThreads /\ [][NextThreads]_vars

\* The temperature conversions on their own: every temperature of the
\* hundredths grid in [5,30], and the off value, is encoded and the result
\* decoded
TempGrid == (C(TEMP_MINIMUM)..C(TEMP_MAXIMUM)) \cup {C(TEMP_OFF)}

InitTemp ==
    /\ wiserHubData = None
    /\ wiserNetworkData = None
    /\ WiserNetworkData = None
    /\ device2roomMap = <<>>
    /\ phase = "new"
    /\ threads = NoThreads
    /\ serialised = TRUE
    /\ \E temp \in TempGrid :
        call = [op |-> "input", args |-> [temp |-> temp, of |-> temp], exc |-> "",
                ret |-> None, reqs |-> <<>>]

ToWiserTemp ==
    /\ call.op = "input"
    /\ call' = [call EXCEPT !.op = "__toWiserTemp",
                            !.ret = Some(toWiserTemp(call.args.temp))]
    /\ UNCHANGED <<wiserHubData, wiserNetworkData, WiserNetworkData, device2roomMap, phase,
                   threads, serialised>>

\* the decoding of what the encoding of args.of returned
FromWiserTemp ==
    /\ call.op = "__toWiserTemp"
    /\ call' = [call EXCEPT !.op = "__fromWiserTemp",
                            !.args = [temp |-> call.ret.val, of |-> call.args.of],
                            !.ret = Some(fromWiserTemp(call.ret.val))]
    /\ UNCHANGED <<wiserHubData, wiserNetworkData, WiserNetworkData, device2roomMap, phase,
                   threads, serialised>>

NextTemp ==
    \/ ToWiserTemp
    \/ FromWiserTemp

SpecTemp == InitTemp /\ [][NextTemp]_vars

-----------------------------------------------------------------------------
(* Properties of the snapshot *)

ValveSet(room) ==
    IF room.SmartValveIds = None THEN {}
    ELSE {room.SmartValveIds.val[i] : i \in DOMAIN room.SmartValveIds.val}

\* the device ids a room names as RoomStatId or in SmartValveIds
DevicesOfRoom(room) ==
    (IF room.RoomStatId = None THEN {} ELSE {room.RoomStatId.val}) \cup ValveSet(room)

RoomsOfDoc(doc) == IF doc.Room = None THEN {} ELSE {doc.Room.val[i] : i \in DOMAIN doc.Room.val}

DevicesOfDoc(doc) == UNION {DevicesOfRoom(room) : room \in RoomsOfDoc(doc)}

RefreshOps == {"__init__", "refreshData"}

\* the last call was a refresh (the constructor's or an explicit one) that
\* fetched and parsed both documents
Refreshed ==
    /\ call.op \in RefreshOps
    /\ call.exc = ""
    /\ Len(call.reqs) = 2
    /\ call.reqs[2].resp.kind = "resp"

\* C1 (as claimed): after a successful refresh every key of the device-room
\* index is a device id that some room of the fetched document names as
\* RoomStatId or in SmartValveIds: no entry is left over from an earlier document.
C1_IndexKeysInLastDocument ==
    Refreshed => DOMAIN device2roomMap \subseteq DevicesOfDoc(wiserHubData.val)

\* C2: after a successful refresh every device id a room of the fetched
\* document names as RoomStatId or in SmartValveIds is in the index with that
\* room's id and Name; a room naming no device adds no entry (the index of a
\* freshly constructed object holds the named devices only) and the refresh
\* does not fail on it.
C2_IndexCoversRooms ==
    /\ Refreshed =>
        \A room \in RoomsOfDoc(wiserHubData.val) : \A d \in DevicesOfRoom(room) :
            /\ d \in DOMAIN device2roomMap
            /\ device2roomMap[d] = [roomId |-> room.id, roomName |-> room.Name]
    /\ (Refreshed /\ call.op = "__init__") =>
        DOMAIN device2roomMap = DevicesOfDoc(wiserHubData.val)
    /\ (/\ call.op \in RefreshOps
        /\ Len(call.reqs) = 2
        /\ call.reqs[2].resp.kind = "resp"
        /\ call.reqs[2].resp.content = <<"J1">>) => call.exc = ""

\* a successful refresh of a document with a thermostat-and-valve room and a
\* room without devices
C2_Witness ==
    /\ Refreshed
    /\ \E room \in RoomsOfDoc(wiserHubData.val) :
        room.RoomStatId # None /\ ValveSet(room) # {}
    /\ \E room \in RoomsOfDoc(wiserHubData.val) :
        room.RoomStatId = None /\ room.SmartValveIds = None

\* the last exchange of the call c failed at connection level
ConnFailedAt(c, i) == Len(c.reqs) = i /\ c.reqs[i].resp.kind = "connerr"

\* C3 (as claimed): when a refreshData call on an object that has a document
\* cached ends in a connection failure, at either of its GETs, the cached
\* document is the one cached before the call and no error is raised.
C3_DocumentKeptOnAnyConnFailure ==
    [][(/\ call'.op = "refreshData"
        /\ wiserHubData # None
        /\ (ConnFailedAt(call', 1) \/ ConnFailedAt(call', 2)))
        => (wiserHubData' = wiserHubData /\ call'.exc = "")]_vars

\* C3 (amended): a connection failure of the hub GET leaves the cached
\* document and the index as they were, raises nothing, returns the cached
\* document and ends the call; a connection failure of the network GET
\* raises nothing either, but the cached document is then the one the call
\* has just fetched.
C3_ConnFailure ==
    [][(call'.op \in RefreshOps) =>
        /\ ConnFailedAt(call', 1) =>
            /\ wiserHubData' = wiserHubData
            /\ device2roomMap' = device2roomMap
            /\ call'.exc = ""
            /\ call'.ret = wiserHubData
        /\ ConnFailedAt(call', 2) =>
            /\ wiserHubData' = call'.reqs[1].resp.body
            /\ wiserHubData' # None
            /\ call'.exc = ""
            /\ call'.ret = wiserHubData']_vars

\* a refresh whose hub GET failed at connection level, a document being cached
C3_Witness ==
    /\ call.op = "refreshData"
    /\ ConnFailedAt(call, 1)
    /\ wiserHubData # None

HubStatus(c) == IF c.reqs # <<>> /\ c.reqs[1].resp.kind = "resp" THEN c.reqs[1].resp.status ELSE 0

\* C4 (as claimed): a non-2xx answer to the hub GET of a refresh fails with
\* the error of its status: 401 authentication, 404 not found, any other
\* status a REST error.
C4_StatusErrors ==
    call.op \in RefreshOps =>
        /\ HubStatus(call) = 401 => call.exc = "WiserHubAuthenticationException"
        /\ HubStatus(call) = 404 => call.exc = "WiserRESTException:Not Found."
        /\ HubStatus(call) = 500 => call.exc = "WiserRESTException:Unknown Error."

\* the accessors that start with checkHubData, and those that read the
\* network document
CheckedReaders == {"getHubData", "getRooms", "getRoom", "getHotwater", "getDeviceRoom"}
NetworkReaders == {"getWiserHubName", "getMACAddress"}

HubGets(c) == {i \in DOMAIN c.reqs : c.reqs[i].url = WISERHUBURL}

\* C5 (as claimed): every read accessor refreshes once when no document is
\* cached and fails with WiserHubDataNull if the document is still absent;
\* with a document cached it makes no request.
C5_EveryReaderEnsuresFresh ==
    [][(call'.op \in CheckedReaders \cup NetworkReaders) =>
        /\ wiserHubData = None =>
            /\ Cardinality(HubGets(call')) = 1
            /\ (ConnFailedAt(call', 1) => call'.exc = "WiserHubDataNull")
        /\ wiserHubData # None => call'.reqs = <<>>]_vars

\* C5 (amended): every read accessor but getWiserHubName and getMACAddress
\* (which make no request at all) starts with a refresh when no document is
\* cached, and fails with WiserHubDataNull when that refresh returns without
\* a document; with a document cached it makes no request, except that
\* getDeviceRoom makes one refresh when the index is empty.
C5_EnsureFresh ==
    [][/\ (call'.op \in CheckedReaders) =>
            /\ wiserHubData = None =>
                /\ call'.reqs # <<>>
                /\ call'.reqs[1].method = "GET"
                /\ call'.reqs[1].url = WISERHUBURL
                /\ ConnFailedAt(call', 1) =>
                        (call'.exc = "WiserHubDataNull" /\ wiserHubData' = None)
            /\ (wiserHubData # None /\ call'.op # "getDeviceRoom") => call'.reqs = <<>>
            /\ (wiserHubData # None /\ call'.op = "getDeviceRoom") =>
                Cardinality(HubGets(call')) = (IF device2roomMap = <<>> THEN 1 ELSE 0)
       /\ (call'.op \in NetworkReaders) => call'.reqs = <<>>]_vars

\* an accessor called with no document cached, the hub being unreachable
C5_Witness ==
    /\ call.op = "getRooms"
    /\ ConnFailedAt(call, 1)
    /\ call.exc = "WiserHubDataNull"

-----------------------------------------------------------------------------
(* Properties of the command dispatcher *)

Mutators ==
    {"setHotwaterMode", "setHomeAwayMode", "setRoomTemperature", "setRoomMode",
     "setRoomSchedule", "setRoomScheduleFromFile", "copyRoomSchedule",
     "setSmartPlugState", "setSmartPlugMode", "setSystemSwitch"}

\* the mutating operations that look nothing up in the cached document
BlindMutators ==
    {"setHomeAwayMode", "setRoomTemperature", "setSmartPlugState",
     "setSmartPlugMode", "setSystemSwitch"}

IsGet(e) == e.method = "GET"
IsPatch(e) == e.method = "PATCH"
Gets(c) == SelectSeq(c.reqs, IsGet)
Patches(c) == SelectSeq(c.reqs, IsPatch)

SnapshotKept ==
    /\ wiserHubData' = wiserHubData
    /\ device2roomMap' = device2roomMap

\* C6 (as claimed): no mutating operation changes the cached hub document or
\* the device-room index, from any reachable state, one with no document
\* cached included, whether the operation succeeds or fails.
C6_MutatorsKeepSnapshot ==
    [][(call'.op \in Mutators) => SnapshotKept]_vars

\* the call c looks nothing up: its operation never does, or it is a
\* setRoomMode in a mode other than manual
LooksNothingUp(c) ==
    \/ c.op \in BlindMutators
    \/ c.op = "setRoomMode" /\ lower(c.args.mode) # S_manual

\* C6 (amended): a mutating operation called with a document cached issues no
\* GET and leaves the cached document and the device-room index as they were,
\* whether it succeeds or fails, and so does, from any state, an operation
\* that looks nothing up; a mutating operation changes the snapshot only by
\* the refresh it starts with when no document is cached.
C6_MutatorsKeepCachedSnapshot ==
    [][(call'.op \in Mutators) =>
        /\ (wiserHubData # None \/ LooksNothingUp(call')) =>
            (SnapshotKept /\ Gets(call') = <<>>)
        /\ ~SnapshotKept =>
            (wiserHubData = None /\ Gets(call') # <<>> /\ IsGet(call'.reqs[1]))]_vars

\* a setRoomMode(manual) that sent both PATCHes with a document cached
C6_Witness ==
    /\ call.op = "setRoomMode"
    /\ call.args.mode = S_manual
    /\ call.exc = ""
    /\ Gets(call) = <<>>
    /\ Len(Patches(call)) = 2

Answered(e, status) == e.resp.kind = "resp" /\ e.resp.status = status

IsRoomPatch(e, roomId) == IsPatch(e) /\ e.url = WISERROOM(roomId)

IsCancellation(e) ==
    e.json = Some([RequestOverride |->
                     [Type |-> "None", DurationMinutes |-> 0, SetPoint |-> 0,
                      Originator |-> "App"]])

\* C7: a setRoomMode in a mode other than boost (auto, manual, off) sends the
\* override-cancellation PATCH first and the mode PATCH only after the
\* cancellation was answered 200; a cancellation answered otherwise fails the
\* call with WiserRESTException and no mode PATCH is sent; a successful
\* setRoomMode(auto) makes exactly two requests, both PATCHes to the room:
\* the cancellation, then Mode Auto.
C7_CancellationFirst ==
    (call.op = "setRoomMode" /\ lower(call.args.mode) \in {S_auto, S_manual, S_off}) =>
        /\ Len(Patches(call)) <= 2
        /\ \A i \in DOMAIN Patches(call) :
            /\ IsRoomPatch(Patches(call)[i], call.args.roomId)
            /\ IsCancellation(Patches(call)[i]) <=> i = 1
        /\ Len(Patches(call)) = 2 => Answered(Patches(call)[1], 200)
        /\ (/\ Patches(call) # <<>>
            /\ Patches(call)[1].resp.kind = "resp"
            /\ ~Answered(Patches(call)[1], 200)) =>
                (call.exc = "WiserRESTException" /\ Len(Patches(call)) = 1)
        /\ call.exc = "" => Len(Patches(call)) = 2
        /\ (lower(call.args.mode) = S_auto /\ call.exc = "") =>
            /\ Len(call.reqs) = 2
            /\ call.reqs[2].json = Some([Mode |-> "Auto"])

\* a setRoomMode("AuTO") that succeeded
C7_Witness ==
    /\ call.op = "setRoomMode"
    /\ call.args.mode = S_AuTO
    /\ call.exc = ""
    /\ Len(call.reqs) = 2

InBoostRange(temp) == C(TEMP_MINIMUM) <= temp /\ temp <= C(TEMP_MAXIMUM)

\* the set-point sp is temp in tenths of a degree, what is below a tenth cut off
InTenths(sp, temp) == sp * Scale <= temp * 10 /\ temp * 10 < (sp + 1) * Scale

\* C8: setRoomMode(roomId, boost, temp, minutes) with temp in [5,30] makes
\* exactly one request, a PATCH to the room that carries a manual override
\* whose SetPoint is temp in tenths of a degree and whose DurationMinutes is
\* minutes; no cancellation PATCH precedes it.
C8_BoostOnePatch ==
    (/\ call.op = "setRoomMode"
     /\ lower(call.args.mode) = S_boost
     /\ InBoostRange(call.args.boost_temp)) =>
        /\ Len(call.reqs) = 1
        /\ IsRoomPatch(call.reqs[1], call.args.roomId)
        /\ ~IsCancellation(call.reqs[1])
        /\ DOMAIN call.reqs[1].json.val = {"RequestOverride"}
        /\ call.reqs[1].json.val.RequestOverride.Type = "Manual"
        /\ call.reqs[1].json.val.RequestOverride.DurationMinutes = call.args.boost_temp_time
        /\ InTenths(call.reqs[1].json.val.RequestOverride.SetPoint, call.args.boost_temp)
        /\ Answered(call.reqs[1], 200) <=> call.exc = ""

\* a boost to 20.55 degrees for 30 minutes that the hub accepted
C8_Witness ==
    /\ call.op = "setRoomMode"
    /\ call.args.mode = S_boost
    /\ call.args.boost_temp = 2055
    /\ call.exc = ""
    /\ call.reqs[1].json.val.RequestOverride.SetPoint = 205

\* the cached ScheduledSetPoint of the room roomId
ScheduledSetPointOf(roomId) ==
    (CHOOSE room \in RoomsOfDoc(wiserHubData.val) : room.id = roomId).ScheduledSetPoint

MinimumSetPoint == TEMP_MINIMUM * 10

\* C9: the mode PATCH of setRoomMode(roomId, manual) carries a manual
\* override whose set-point is the cached ScheduledSetPoint of the room, or
\* the minimum (5 degrees, 50) where that is below 5 degrees, the off value
\* of -20 degrees included; the set-point sent is never below the minimum.
C9_ManualSetPoint ==
    (/\ call.op = "setRoomMode"
     /\ lower(call.args.mode) = S_manual
     /\ Len(Patches(call)) = 2) =>
        /\ DOMAIN Patches(call)[2].json.val = {"Mode", "RequestOverride"}
        /\ Patches(call)[2].json.val.Mode = "Manual"
        /\ DOMAIN Patches(call)[2].json.val.RequestOverride = {"Type", "SetPoint"}
        /\ Patches(call)[2].json.val.RequestOverride.Type = "Manual"
        /\ Patches(call)[2].json.val.RequestOverride.SetPoint =
            (IF ScheduledSetPointOf(call.args.roomId) < MinimumSetPoint
             THEN MinimumSetPoint
             ELSE ScheduledSetPointOf(call.args.roomId))
        /\ Patches(call)[2].json.val.RequestOverride.SetPoint >= MinimumSetPoint

\* a setRoomMode(manual) on a room scheduled off that sent the minimum
C9_Witness ==
    /\ call.op = "setRoomMode"
    /\ call.args.mode = S_manual
    /\ Len(Patches(call)) = 2
    /\ ScheduledSetPointOf(call.args.roomId) = TEMP_OFF * 10
    /\ Patches(call)[2].json.val.RequestOverride.SetPoint = MinimumSetPoint

RecognisedModes == {S_auto, S_boost, S_off, S_manual}

InvalidRoomMode(args) ==
    \/ lower(args.mode) \notin RecognisedModes
    \/ lower(args.mode) = S_boost /\ ~InBoostRange(args.boost_temp)

IsHubGet(e) == IsGet(e) /\ e.url = WISERHUBURL
IsNetworkGet(e) == IsGet(e) /\ e.url = WISERNETWORKURL

RECURSIVE Resps(_)
Resps(es) == IF es = <<>> THEN <<>> ELSE <<Head(es).resp>> \o Resps(Tail(es))

\* the answers the hub gave in the call c, to give them again
Replay(c) ==
    [hub |-> Resps(SelectSeq(c.reqs, IsHubGet)),
     net |-> Resps(SelectSeq(c.reqs, IsNetworkGet)),
     patch |-> Resps(Patches(c))]

SameOutcome(r, c) ==
    /\ r.exc = c.exc
    /\ r.ret = c.ret
    /\ r.st.reqs = c.reqs
    /\ r.st.wiserHubData = wiserHubData'
    /\ r.st.device2roomMap = device2roomMap'

\* C10: a setRoomMode whose mode, lower-cased, is not auto, boost, off or
\* manual, or whose mode is boost with a boost temperature outside [5,30],
\* fails with ValueError and makes no request; a setRoomMode in any casing
\* of a mode does what it does for the lower-case mode against the same hub.
C10_InvalidModeNoRequest ==
    [][(call'.op = "setRoomMode") =>
        /\ InvalidRoomMode(call'.args) =>
            (call'.exc = "ValueError" /\ call'.reqs = <<>> /\ SnapshotKept)
        /\ (call'.args.mode # lower(call'.args.mode)) =>
            SameOutcome(setRoomMode(Cur(Replay(call')), call'.args.roomId,
                                    lower(call'.args.mode), call'.args.boost_temp,
                                    call'.args.boost_temp_time),
                        call')]_vars

\* a setRoomMode("BOOST") to 4 degrees, refused
C10_Witness ==
    /\ call.op = "setRoomMode"
    /\ call.args.mode = S_BOOST
    /\ call.args.boost_temp = C(4)
    /\ call.exc = "ValueError"
    /\ call.reqs = <<>>

\* the temperature t is one the hub takes: in [5,30], or the off value
Accepted(t) == InBoostRange(t) \/ t = C(TEMP_OFF)

\* C11: setRoomTemperature(roomId, t) with t outside [5,30] and other than
\* the off value -20 fails with ValueError and makes no request; with t in
\* [5,30] or t = -20 it makes exactly one request, a PATCH to the room that
\* carries a manual override whose SetPoint is t in tenths of a degree.
C11_RoomTemperature ==
    (call.op = "setRoomTemperature") =>
        IF Accepted(call.args.temperature)
        THEN /\ Len(call.reqs) = 1
             /\ IsPatch(call.reqs[1])
             /\ call.reqs[1].url = WISERSETROOMTEMP(call.args.roomId)
             /\ DOMAIN call.reqs[1].json.val = {"RequestOverride"}
             /\ DOMAIN call.reqs[1].json.val.RequestOverride = {"Type", "SetPoint"}
             /\ call.reqs[1].json.val.RequestOverride.Type = "Manual"
             /\ IF call.args.temperature = C(TEMP_OFF)
                THEN call.reqs[1].json.val.RequestOverride.SetPoint = TEMP_OFF * 10
                ELSE InTenths(call.reqs[1].json.val.RequestOverride.SetPoint,
                              call.args.temperature)
        ELSE call.exc = "ValueError" /\ call.reqs = <<>>

\* a setRoomTemperature to the off value that the hub accepted
C11_Witness ==
    /\ call.op = "setRoomTemperature"
    /\ call.args.temperature = C(TEMP_OFF)
    /\ call.exc = ""
    /\ call.reqs[1].json.val.RequestOverride.SetPoint = TEMP_OFF * 10

PatchingMutators ==
    {"setHotwaterMode", "setHomeAwayMode", "setRoomTemperature", "setRoomMode",
     "setRoomSchedule", "setRoomScheduleFromFile", "setSystemSwitch"}

\* the exchange e is a PATCH that the hub answered with a status other than 200
Refused(e) == IsPatch(e) /\ e.resp.kind = "resp" /\ e.resp.status # 200

\* the call c ended at a refused PATCH, with the error exc
FailsAtRefusal(c, exc) ==
    \A i \in DOMAIN c.reqs :
        Refused(c.reqs[i]) => (i = Len(c.reqs) /\ c.exc = exc)

\* C12 (as claimed): each of the PATCHing operations reports a PATCH answered
\* with a status other than 200 as WiserRESTException, and the refused PATCH
\* is the last request of the call: it is not attempted again.
C12_RefusalIsRESTException ==
    (call.op \in PatchingMutators) => FailsAtRefusal(call, "WiserRESTException")

-----------------------------------------------------------------------------
(* Properties of the lookups *)

\* the section name of the cached document, None when the document lacks it
CachedSection(name) == wiserHubData.val[name]

\* the records of a section, none when it is absent
RecordsOf(section) ==
    IF section = None THEN {} ELSE {section.val[i] : i \in DOMAIN section.val}

\* the call was served from the document that was cached when it began
FromCache(c) == c.reqs = <<>> /\ wiserHubData # None

\* C13 (as claimed): served from the cached document, getHeatingRelayStatus
\* returns "On" if a heating channel has HeatingRelayState "On", and "Off"
\* when every channel is off or there is none, the HeatingChannel section
\* being empty or absent.
C13_RelayStatus ==
    (call.op = "getHeatingRelayStatus" /\ FromCache(call)) =>
        /\ call.exc = ""
        /\ call.ret =
            Some(IF \E ch \in RecordsOf(CachedSection("HeatingChannel")) :
                        ch.HeatingRelayState = "On"
                 THEN "On" ELSE "Off")

SectionOf(op) ==
    CASE op = "getRoom" -> "Room"
      [] op = "getDevice" -> "Device"
      [] op = "getSmartPlug" -> "SmartPlug"

\* the error that says the section of the lookup op holds nothing
NothingFound(op) ==
    CASE op = "getRoom" -> "WiserNoRoomsFound"
      [] op = "getDevice" -> "WiserNoDevicesFound"
      [] op = "getSmartPlug" -> "WiserNoSmartPlugsFound"

RequestedId(c) ==
    CASE c.op = "getRoom" -> c.args.roomId
      [] c.op = "getDevice" -> c.args.deviceId
      [] c.op = "getSmartPlug" -> c.args.smartPlugId

\* C14 (as claimed): served from the cached document, a by-id lookup
\* (getRoom, getDevice, getSmartPlug) fails with WiserNotFound when its
\* section holds records but none with the requested id, and with the
\* section's own error (WiserNoRoomsFound, WiserNoDevicesFound) when the
\* section is absent or empty.
C14_LookupErrors ==
    (call.op \in {"getRoom", "getDevice", "getSmartPlug"} /\ FromCache(call)) =>
        IF RecordsOf(CachedSection(SectionOf(call.op))) = {}
        THEN call.exc = NothingFound(call.op)
        ELSE (\A rec \in RecordsOf(CachedSection(SectionOf(call.op))) :
                    rec.id # RequestedId(call))
                => call.exc = "WiserNotFound"

-----------------------------------------------------------------------------
(* Properties of the smart plug setters *)

\* the call c made one request, a PATCH of the smart plug with the body
OnePlugPatch(c, body) ==
    /\ Len(c.reqs) = 1
    /\ IsPatch(c.reqs[1])
    /\ c.reqs[1].url = WISERSMARTPLUGURL(c.args.smartPlugId)
    /\ c.reqs[1].json = Some(body)

Refusal(c) == c.exc = "ValueError" /\ c.reqs = <<>>

\* C15: setSmartPlugState and setSmartPlugMode send their value in title
\* case whatever its casing: a state that is "on" or "off" in any casing is
\* sent as RequestOutput "On" or "Off", a mode that is "auto" or "manual" in
\* any casing as Mode "Auto" or "Manual", in the one PATCH of the call; any
\* other value fails with ValueError and no request is made.
C15_TitleCase ==
    /\ (call.op = "setSmartPlugState") =>
        IF lower(call.args.smartPlugState) = S_on
        THEN OnePlugPatch(call, [RequestOutput |-> "On"])
        ELSE IF lower(call.args.smartPlugState) = S_off
        THEN OnePlugPatch(call, [RequestOutput |-> "Off"])
        ELSE Refusal(call)
    /\ (call.op = "setSmartPlugMode") =>
        IF lower(call.args.smartPlugMode) = S_auto
        THEN OnePlugPatch(call, [Mode |-> "Auto"])
        ELSE IF lower(call.args.smartPlugMode) = S_manual
        THEN OnePlugPatch(call, [Mode |-> "Manual"])
        ELSE Refusal(call)

\* a setSmartPlugState("on") that the hub accepted
C15_Witness ==
    /\ call.op = "setSmartPlugState"
    /\ call.args.smartPlugState = S_on
    /\ call.exc = ""
    /\ call.reqs[1].json = Some([RequestOutput |-> "On"])

-----------------------------------------------------------------------------
(* Properties of the temperature conversions *)

Distance(a, b) == IF a >= b THEN a - b ELSE b - a

\* a tenth of a degree
Tenth == Scale \div 10

\* C16: for every temperature t in [5,30] the decoding of the encoding of t
\* differs from t by at most 0.1 degree, and the off value keeps its value:
\* -20 is encoded as -200 and -200 decoded as -20.
C16_RoundTrip ==
    (call.op = "__fromWiserTemp") =>
        /\ InBoostRange(call.args.of) => Distance(call.ret.val, call.args.of) <= Tenth
        /\ (call.args.of = C(TEMP_OFF)) =>
            (call.args.temp = TEMP_OFF * 10 /\ call.ret.val = C(TEMP_OFF))

\* 20.55 degrees encoded and decoded again: 20.5 degrees
C16_Witness ==
    /\ call.op = "__fromWiserTemp"
    /\ call.args.of = 2055
    /\ call.ret.val = 2050

\* C20 (as claimed): the encoding of a temperature of the hundredths grid in
\* [5,30], or of -20, is the nearest whole number of tenths of a degree.
C20_NearestTenth ==
    (call.op = "__toWiserTemp") =>
        2 * Distance(call.ret.val * Scale, call.args.temp * 10) <= Scale

-----------------------------------------------------------------------------
(* Properties of the schedule copy and of the timeouts *)

CachedRooms(roomId) == {r \in RecordsOf(CachedSection("Room")) : r.id = roomId}

\* the cached schedule records of the room roomId
CachedSchedules(roomId) ==
    {s \in RecordsOf(CachedSection("Schedule")) :
        \E r \in CachedRooms(roomId) : r.ScheduleId = Some(s.id)}

\* the call c fetched nothing: what it looked up was cached when it began
LookedUpInCache(c) == Gets(c) = <<>> /\ wiserHubData # None

\* C17 (as claimed): served from the cached document, copyRoomSchedule makes
\* exactly one request, a PATCH of the schedule named by the target room's
\* ScheduleId whose body is the cached schedule record of the source room;
\* if the source room, the target room, or the ScheduleId or schedule record
\* of either is absent it fails with WiserNotFound and makes no request.
C17_CopySchedule ==
    (call.op = "copyRoomSchedule" /\ LookedUpInCache(call)) =>
        IF CachedSchedules(call.args.fromRoomId) # {} /\ CachedSchedules(call.args.toRoomId) # {}
        THEN /\ Len(call.reqs) = 1
             /\ IsPatch(call.reqs[1])
             /\ \E r \in CachedRooms(call.args.toRoomId) :
                    call.reqs[1].url = WISERSCHEDULEURL(r.ScheduleId.val)
             /\ \E s \in CachedSchedules(call.args.fromRoomId) :
                    call.reqs[1].json = Some(s)
        ELSE call.exc = "WiserNotFound" /\ call.reqs = <<>>

TimedOut(e) == e.resp.kind = "timeout"

\* C18: when either GET of a refresh times out, the refresh fails with
\* WiserHubTimeoutException and the timed-out GET is the last request of the
\* call: it is not attempted again, and the call does not return.
C18_TimeoutFails ==
    (call.op \in RefreshOps) =>
        \A i \in DOMAIN call.reqs :
            TimedOut(call.reqs[i]) =>
                /\ i = Len(call.reqs)
                /\ call.exc = "WiserHubTimeoutException"
                /\ call.ret = None

\* a refreshData whose network GET timed out
C18_Witness ==
    /\ call.op = "refreshData"
    /\ Len(call.reqs) = 2
    /\ call.reqs[2].url = WISERNETWORKURL
    /\ TimedOut(call.reqs[2])
    /\ call.exc = "WiserHubTimeoutException"

-----------------------------------------------------------------------------
(* Properties of the relay status without a cached document *)

\* C19 (as claimed): getHeatingRelayStatus called with no document cached,
\* the hub being unreachable, returns a status and raises nothing: it does
\* not go through checkHubData.
C19_RelayStatusNeverFails ==
    [][(/\ call'.op = "getHeatingRelayStatus"
        /\ wiserHubData = None
        /\ (call'.reqs = <<>> \/ ConnFailedAt(call', 1)))
        => (call'.exc = "" /\ call'.ret \in {Some("On"), Some("Off")})]_vars

\* C19 (amended): getHeatingRelayStatus goes through checkHubData by way of
\* getHeatingChannels: with no document cached it starts with a refresh, and
\* fails with WiserHubDataNull when the hub is unreachable; with a document
\* cached it makes no request.
C19_RelayStatusEnsuresFresh ==
    [][(call'.op = "getHeatingRelayStatus") =>
        /\ wiserHubData = None =>
            /\ call'.reqs # <<>>
            /\ IsHubGet(call'.reqs[1])
            /\ ConnFailedAt(call', 1) =>
                    (call'.exc = "WiserHubDataNull" /\ wiserHubData' = None)
        /\ wiserHubData # None => call'.reqs = <<>>]_vars

\* a getHeatingRelayStatus with no document cached and the hub unreachable
C19_Witness ==
    /\ call.op = "getHeatingRelayStatus"
    /\ ConnFailedAt(call, 1)
    /\ call.exc = "WiserHubDataNull"

-----------------------------------------------------------------------------
(* Properties of getDeviceRoom, setHomeAwayMode and the requests *)

\* what a refresh can raise
RefreshErrors ==
    {"WiserHubTimeoutException", "AttributeError", "JSONDecodeError", "WiserHubDataNull"}

OneModePatch(c) ==
    /\ Len(c.reqs) = 1
    /\ IsPatch(c.reqs[1])
    /\ c.reqs[1].url = WISERMODEURL
    /\ DOMAIN c.reqs[1].json.val = {"type", "setPoint"}

\* C22: setHomeAwayMode with mode AWAY and a temperature that is missing or
\* neither in [5,30] nor the off value -20 fails with ValueError and makes no
\* request; with an accepted temperature it makes one PATCH of type 2 whose
\* setPoint is the temperature in tenths of a degree.  With mode HOME the
\* temperature is not looked at, out of range or not, and the one PATCH
\* carries type 0 and setPoint 0.  Any other mode, "home" and "away"
\* included, fails with ValueError and makes no request.
C22_HomeAway ==
    (call.op = "setHomeAwayMode") =>
        IF call.args.mode = S_AWAY
        THEN IF call.args.temperature # None /\ Accepted(call.args.temperature.val)
             THEN /\ OneModePatch(call)
                  /\ call.reqs[1].json.val.type = 2
                  /\ InTenths(call.reqs[1].json.val.setPoint,
                              call.args.temperature.val)
             ELSE Refusal(call)
        ELSE IF call.args.mode = S_HOME
        THEN /\ OneModePatch(call)
             /\ call.reqs[1].json.val.type = 0
             /\ call.reqs[1].json.val.setPoint = 0
        ELSE Refusal(call)

\* a setHomeAwayMode to HOME with a temperature above the range, accepted
\* by the hub
C22_Witness ==
    /\ call.op = "setHomeAwayMode"
    /\ call.args.mode = S_HOME
    /\ call.args.temperature = Some(C(TEMP_MAXIMUM) + 1)
    /\ call.exc = ""
    /\ Len(call.reqs) = 1

\* C23 (as claimed): every request of every operation, the PATCH of
\* setHotwaterMode included, carries the timeout TIMEOUT and the headers
\* with the secret and the JSON content type.
C23_EveryRequestTimed ==
    \A i \in DOMAIN call.reqs :
        /\ call.reqs[i].timeout = Some(TIMEOUT)
        /\ call.reqs[i].headers = headers

\* the field of the network document that a reader of it returns
FieldRead(op) == IF op = "getWiserHubName" THEN "MdnsHostname" ELSE "MacAddress"

\* C25 (as claimed): once a refresh has fetched and parsed both documents,
\* getWiserHubName and getMACAddress return the Station.MdnsHostname and
\* Station.MacAddress of the network document fetched last.
C25_NetworkDocumentReadable ==
    (call.op \in NetworkReaders /\ WiserNetworkData # None) =>
        /\ call.exc = ""
        /\ call.ret = Some(WiserNetworkData.val.Station[FieldRead(call.op)])

-----------------------------------------------------------------------------
(* Properties of two threads on one object *)

\* every device the document names in a room is indexed under that room
IndexCovers(doc, map) ==
    \A room \in RoomsOfDoc(doc) : \A d \in DevicesOfRoom(room) :
        /\ d \in DOMAIN map
        /\ map[d] = [roomId |-> room.id, roomName |-> room.Name]

\* where getDeviceRoom reads the fields of the object
ReadPcs == {"check1", "check2", "test", "lookup"}

\* where refreshData has assigned the document and has yet to end its loop
\* over the rooms
IndexingPcs == {"rooms", "iter", "stat", "valve"}

\* the last call was a getDeviceRoom whose lookup did not give the room in
\* which the document cached at that moment names the device
TornRead ==
    /\ call.op = "getDeviceRoom"
    /\ call.exc \in {"", "KeyError"}
    /\ threads.reader.seen # None
    /\ \E room \in RoomsOfDoc(threads.reader.seen.val) :
        /\ call.args.deviceId \in DevicesOfRoom(room)
        /\ call.ret # Some([roomId |-> room.id, roomName |-> room.Name])

\* C24: with the calls on one object serialised, getDeviceRoom never reads
\* the object between the assignment of a fetched document and the end of
\* the index update: wherever it reads, the index covers the cached document,
\* and its lookup gives the room in which the cached document names the
\* device.  (That a reader racing with refreshData does see a new document
\* with an index not yet updated for it is the reachable state C24_Witness.)
C24_SerialisedReadsWhole ==
    serialised =>
        /\ (threads.reader.pc \in ReadPcs /\ wiserHubData # None) =>
            IndexCovers(wiserHubData.val, device2roomMap)
        /\ ~TornRead

\* a getDeviceRoom that ran while refreshData was between the assignment of
\* the document and the end of its loop over the rooms, and that did not
\* find the device under the room the new document names for it
C24_Witness ==
    /\ ~serialised
    /\ TornRead
    /\ threads.reader.pc = "idle"
    /\ threads.refresher.pc \in IndexingPcs
    /\ threads.refresher.resp = threads.reader.seen

====
